---- MODULE Spec2Model ----
(***************************************************************************)
(* A model of ac_match (src/src/lib.rs): the recursive matcher of patterns *)
(* against arena expressions whose AC operators hold multisets of operand  *)
(* handles.  The recursion is unfolded into an explicit call stack; every  *)
(* substitution the code holds in a variable (the caller's `subst`, and    *)
(* each `try_subst` of the AC branch) is a cell of `cells`, and a frame    *)
(* names the cell its `subst: &mut Subst` parameter points to.             *)
(***************************************************************************)
EXTENDS Integers, Sequences, FiniteSets, TLC

\* ---------------------------------------------------------------- bounds
\* Pattern literals are Const(0) .. Const(MaxConst).
MaxConst == 1
\* A pattern's sub-pattern list holds at most MaxLen leaf patterns.
MaxLen == 3

\* ------------------------------------------------------- maps (HashMap)
EmptyMap == [k \in {} |-> 0]

Restrict(f, S) == [k \in S |-> f[k]]

Put(f, k, v) == [j \in DOMAIN f \cup {k} |-> IF j = k THEN v ELSE f[j]]

\* fn multiset(vs): counts the occurrences of each handle of vs.
RECURSIVE multiset(_)
multiset(vs) ==
    IF vs = <<>> THEN EmptyMap
    ELSE LET res == multiset(SubSeq(vs, 1, Len(vs) - 1))
             v   == vs[Len(vs)]
         IN  Put(res, v, (IF v \in DOMAIN res THEN res[v] ELSE 0) + 1)

\* ------------------------------------------------- expressions (MathAC)
EConst(c)    == [t |-> "Const", v |-> c, n |-> "",  op |-> "", args |-> <<>>, ms |-> EmptyMap]
EVar(name)   == [t |-> "Var",   v |-> 0, n |-> name, op |-> "", args |-> <<>>, ms |-> EmptyMap]
EOp(o, a)    == [t |-> "Op",    v |-> 0, n |-> "",  op |-> o,  args |-> a,    ms |-> EmptyMap]
EOpAC(o, m)  == [t |-> "OpAC",  v |-> 0, n |-> "",  op |-> o,  args |-> <<>>, ms |-> m]

\* Arena::insert appends; the handle of the new node is the prior length.
insert(a, node) == Append(a, node)

\* The arena of test_match (handles 0..5), followed by further nodes.
TestArena ==
    LET a1 == insert(<<>>, EVar("x"))
        a2 == insert(a1, EVar("y"))
        a3 == insert(a2, EConst(0))
        a4 == insert(a3, EConst(1))
        a5 == insert(a4, EOpAC("Add", multiset(<<0, 3, 2, 1>>)))
    IN  insert(a5, EOpAC("Mul", multiset(<<0, 3, 2, 1>>)))

arena ==
    LET a7  == insert(TestArena, EConst(0))
        a8  == insert(a7, EOp("Sub", <<1, 0>>))
        a9  == insert(a8, EOp("Sub", <<0, 3>>))
        a10 == insert(a9, EOpAC("Add", multiset(<<0, 0, 2>>)))
        a11 == insert(a10, EOpAC("Add", multiset(<<2, 1>>)))
    IN  insert(a11, EOpAC("Add", multiset(<<7, 8>>)))

Ids == 0 .. (Len(arena) - 1)

\* impl Index<Id> for Arena
Node(id) == arena[id + 1]

\* ------------------------------------------------------------- patterns
PConst(c)     == [t |-> "Const",    v |-> c, n |-> "",   op |-> "", pats |-> <<>>]
PVar(name)    == [t |-> "Var",      v |-> 0, n |-> name, op |-> "", pats |-> <<>>]
PMultiset(nm) == [t |-> "Multiset", v |-> 0, n |-> nm,   op |-> "", pats |-> <<>>]
POp(o, ps)    == [t |-> "Op",       v |-> 0, n |-> "",   op |-> o,  pats |-> ps]

\* ----------------------------------------------------------- SubstValue
Atom(id)    == [t |-> "Atom",     id |-> id, ms |-> EmptyMap]
MultisetV(m) == [t |-> "Multiset", id |-> 0,  ms |-> m]

\* ------------------------------------------------------ the input space
VarNames == {"x", "xs"}
RestNames == {"xs"}
Ops == {"Add", "Mul", "Sub"}

Leaves ==
    {PConst(c) : c \in 0 .. MaxConst}
      \cup {PVar(nm) : nm \in VarNames}
      \cup {PMultiset(nm) : nm \in RestNames}

Lists(S) == UNION {[1 .. m -> S] : m \in 0 .. MaxLen}

Binary == {POp("Sub", <<a, b>>) : a \in Leaves, b \in Leaves}

Patterns ==
    Leaves
      \cup {POp(o, l) : o \in Ops, l \in Lists(Leaves)}
      \cup {POp("Add", <<q>>) : q \in Binary}
      \cup {POp("Add", <<q, l>>) : q \in Binary, l \in Leaves}

Substs ==
    { EmptyMap,
      [k \in {"x"} |-> Atom(2)],
      [k \in {"xs"} |-> MultisetV(multiset(<<0, 1, 3>>))] }

\* ---------------------------------------------------------------- state
VARIABLES
    expr,       \* the handle of the outermost call
    pattern,    \* the pattern of the outermost call
    subst_in,   \* the caller's substitution when the outermost call starts
    stack,      \* the active calls of ac_match, outermost first
    cells,      \* the substitutions: cells[1] the caller's, then one per running trial
    ret         \* what the call that returned last returned; "panic" once aborted

vars == <<expr, pattern, subst_in, stack, cells, ret>>

Frame(e, pat, sref) ==
    [expr |-> e, pat |-> pat, sref |-> sref, pc |-> "start",
     i |-> 0, remaining |-> EmptyMap, untried |-> {}, cand |-> 0]

top == stack[Len(stack)]

Running(pc) == stack # <<>> /\ top.pc = pc

Done == stack = <<>>

Init ==
    /\ expr \in Ids
    /\ pattern \in Patterns
    /\ subst_in \in Substs
    /\ stack = <<Frame(expr, pattern, 1)>>
    /\ cells = <<subst_in>>
    /\ ret = "none"


\* ------------------------------------------------- the pieces of ac_match
Bool(b) == IF b THEN "true" ELSE "false"

\* Case with the Multiset arm lost: a Multiset pattern falls to `_ => false`.
CaseMultisetFalse(pat, node) ==
    IF pat.t = "Const" /\ node.t = "Const" /\ pat.v = node.v THEN "const"
    ELSE IF pat.t = "Var" THEN "var"
    ELSE IF pat.t = "Op" /\ node.t = "Op" /\ pat.op = node.op THEN "op"
    ELSE IF pat.t = "Op" /\ node.t = "OpAC" /\ pat.op = node.op THEN "opac"
    ELSE "other"

\* Which arm of `match (pattern, &arena[expr])` is taken; the arms are tried
\* in the order of the source.
Case(pat, node) ==
    IF pat.t = "Const" /\ node.t = "Const" /\ pat.v = node.v THEN "const"
    ELSE IF pat.t = "Var" THEN "var"
    ELSE IF pat.t = "Op" /\ node.t = "Op" /\ pat.op = node.op THEN "op"
    ELSE IF pat.t = "Op" /\ node.t = "OpAC" /\ pat.op = node.op THEN "opac"
    ELSE IF pat.t = "Multiset" THEN "multiset"
    ELSE "other"

\* VarCase comparing the bound node with the candidate's by structure.
VarCaseStructural(x, e, s) ==
    IF x \in DOMAIN s
    THEN [res |-> Bool(s[x].t = "Atom" /\ Node(s[x].id) = Node(e)), subst |-> s]
    ELSE [res |-> "true", subst |-> Put(s, x, Atom(e))]

\* VarCase rebinding a bound name to the candidate.
VarCaseOverwrite(x, e, s) ==
    [res |-> "true", subst |-> Put(s, x, Atom(e))]

\* The (Pattern::Var(x), _) arm on substitution s.
VarCase(x, e, s) ==
    IF x \in DOMAIN s
    THEN [res |-> Bool(s[x] = Atom(e)), subst |-> s]
    ELSE [res |-> "true", subst |-> Put(s, x, Atom(e))]

\* The Pattern::Multiset(xs) arm of the AC loop: "panic" is the failed assert.
BindRest(xs, remaining, s) ==
    IF xs \in DOMAIN s
    THEN [res |-> "panic", subst |-> s]
    ELSE [res |-> "true", subst |-> Put(s, xs, MultisetV(remaining))]

\* RemoveMatched that leaves the matched candidate in the multiset.
RemoveNothing(remaining, e) == remaining

\* remaining.remove(&e): HashMap::remove drops the key with its count.
RemoveMatched(remaining, e) == Restrict(remaining, DOMAIN remaining \ {e})

\* Install that drops the bindings of a successful trial.
InstallNever(ok, subst, try_subst) == subst

\* Install that keeps the bindings of a failed trial.
InstallAlways(ok, subst, try_subst) == try_subst

\* if ac_match(e, pat, arena, &mut try_subst) { *subst = try_subst; ... }
Install(ok, subst, try_subst) == IF ok THEN try_subst ELSE subst

\* --------------------------------------------------------------- control
SetTop(f) == [stack EXCEPT ![Len(stack)] = f]

Front(s) == SubSeq(s, 1, Len(s) - 1)

\* The running call returns b to its caller.
Return(b) ==
    /\ stack' = Front(stack)
    /\ ret' = b

\* panic! or a failed assert!: the whole matching session is aborted.
Panic ==
    /\ stack' = <<>>
    /\ ret' = "panic"

\* The running call calls ac_match(e, pat, arena, <cell sref>) and waits at pc.
Call(pc, e, pat, sref) ==
    /\ stack' = Append(SetTop([top EXCEPT !.pc = pc]), Frame(e, pat, sref))
    /\ ret' = "none"

inputs == <<expr, pattern, subst_in>>

\* (Pattern::Const(a), MathAC::Const(b)) if a == b => true
MatchConst ==
    /\ Running("start")
    /\ Case(top.pat, Node(top.expr)) = "const"
    /\ Return("true")
    /\ UNCHANGED <<inputs, cells>>

\* (Pattern::Var(x), _)
MatchVar ==
    /\ Running("start")
    /\ Case(top.pat, Node(top.expr)) = "var"
    /\ LET r == VarCase(top.pat.n, top.expr, cells[top.sref])
       IN  /\ cells' = [cells EXCEPT ![top.sref] = r.subst]
           /\ Return(r.res)
    /\ UNCHANGED inputs

\* (Pattern::Op(pop, pats), MathAC::Op(eop, args)) if pop == eop: the assert
\* and the call on the first operand.
MatchOp ==
    /\ Running("start")
    /\ Case(top.pat, Node(top.expr)) = "op"
    /\ IF Len(top.pat.pats) # 2
       THEN Panic
       ELSE Call("op0", Node(top.expr).args[1], top.pat.pats[1], top.sref)
    /\ UNCHANGED <<inputs, cells>>

\* `&&` after the first operand: false short-circuits, true calls the second.
OpSecond ==
    /\ Running("op0")
    /\ ret # "none"
    /\ IF ret = "false"
       THEN Return("false")
       ELSE Call("op1", Node(top.expr).args[2], top.pat.pats[2], top.sref)
    /\ UNCHANGED <<inputs, cells>>

\* The value of `a && b` once b has returned.
OpReturn ==
    /\ Running("op1")
    /\ ret # "none"
    /\ Return(ret)
    /\ UNCHANGED <<inputs, cells>>

\* (Pattern::Op(pop, pats), MathAC::OpAC(eop, multiset)) if pop == eop:
\* let mut remaining = multiset.clone(); and the loop over pats starts.
MatchOpAC ==
    /\ Running("start")
    /\ Case(top.pat, Node(top.expr)) = "opac"
    /\ stack' = SetTop([top EXCEPT !.pc = "ac_loop", !.i = 1,
                                   !.remaining = Node(top.expr).ms])
    /\ UNCHANGED <<inputs, cells, ret>>

\* (Pattern::Multiset(_), _) => panic!
MatchMultiset ==
    /\ Running("start")
    /\ Case(top.pat, Node(top.expr)) = "multiset"
    /\ Panic
    /\ UNCHANGED <<inputs, cells>>

\* _ => false
MatchOther ==
    /\ Running("start")
    /\ Case(top.pat, Node(top.expr)) = "other"
    /\ Return("false")
    /\ UNCHANGED <<inputs, cells>>

\* `for pat in pats` is exhausted: the trailing `true`.
ACDone ==
    /\ Running("ac_loop")
    /\ top.i > Len(top.pat.pats)
    /\ Return("true")
    /\ UNCHANGED <<inputs, cells>>

\* Pattern::Multiset(xs) in the list: bind the rest and return true.
ACBindRest ==
    /\ Running("ac_loop")
    /\ top.i <= Len(top.pat.pats)
    /\ top.pat.pats[top.i].t = "Multiset"
    /\ LET r == BindRest(top.pat.pats[top.i].n, top.remaining, cells[top.sref])
       IN  IF r.res = "panic"
           THEN Panic /\ UNCHANGED cells
           ELSE /\ cells' = [cells EXCEPT ![top.sref] = r.subst]
                /\ Return(r.res)
    /\ UNCHANGED inputs

\* Any other sub-pattern: `for &e in remaining.keys()` starts.
ACStartIter ==
    /\ Running("ac_loop")
    /\ top.i <= Len(top.pat.pats)
    /\ top.pat.pats[top.i].t # "Multiset"
    /\ stack' = SetTop([top EXCEPT !.pc = "ac_iter",
                                   !.untried = DOMAIN top.remaining])
    /\ UNCHANGED <<inputs, cells, ret>>

\* The iterator gives out some key it has not given yet (its order is
\* unspecified); the candidate is tried on a clone of the substitution.
ACTry ==
    /\ Running("ac_iter")
    /\ \E e \in top.untried :
         /\ cells' = Append(cells, cells[top.sref])
         /\ stack' = Append(SetTop([top EXCEPT !.pc = "ac_trial", !.cand = e,
                                               !.untried = top.untried \ {e}]),
                            Frame(e, top.pat.pats[top.i], Len(cells) + 1))
    /\ ret' = "none"
    /\ UNCHANGED inputs

\* The trial has returned: on true the clone is installed, the loop is left
\* and the candidate removed from remaining; on false the next key is tried.
\* The clone is the last cell: the trials of inner calls are over.
ACAfterTrial ==
    /\ Running("ac_trial")
    /\ ret # "none"
    /\ LET ok == ret = "true"
       IN  /\ cells' = [Front(cells) EXCEPT ![top.sref] =
                           Install(ok, cells[top.sref], cells[Len(cells)])]
           /\ stack' = SetTop(
                 IF ok
                 THEN [top EXCEPT !.pc = "ac_loop", !.i = top.i + 1,
                                  !.remaining = RemoveMatched(top.remaining, top.cand)]
                 ELSE [top EXCEPT !.pc = "ac_iter"])
    /\ ret' = "none"
    /\ UNCHANGED inputs

\* The iterator is exhausted with matched = None: return false.
ACFail ==
    /\ Running("ac_iter")
    /\ top.untried = {}
    /\ Return("false")
    /\ UNCHANGED <<inputs, cells>>

Next ==
    \/ MatchConst
    \/ MatchVar
    \/ MatchOp
    \/ OpSecond
    \/ OpReturn
    \/ MatchOpAC
    \/ MatchMultiset
    \/ MatchOther
    \/ ACDone
    \/ ACBindRest
    \/ ACStartIter
    \/ ACTry
    \/ ACAfterTrial
    \/ ACFail

Spec == Init /\ [][Next]_vars

\* ==================================================================== claims
EmptyStart == subst_in = EmptyMap

Final == cells[1]

\* The patterns of test_match.
AddZero == POp("Add", <<PConst(0), PVar("x"), PMultiset("xs")>>)
MulZero == POp("Mul", <<PConst(0), PMultiset("xs")>>)

\* One occurrence of e taken out of multiset m.
RemoveOne(m, e) ==
    IF m[e] > 1 THEN [m EXCEPT ![e] = m[e] - 1]
    ELSE Restrict(m, DOMAIN m \ {e})

\* The names a pattern holds as Var(name) or Multiset(name).
RECURSIVE AllNames(_)
AllNames(p) ==
    IF p.t \in {"Var", "Multiset"} THEN {p.n}
    ELSE UNION {AllNames(p.pats[j]) : j \in 1 .. Len(p.pats)}

\* The same, leaving out the sub-patterns that follow a Multiset binder in
\* their list.
RECURSIVE ExaminedNames(_)
ExaminedNames(p) ==
    IF p.t \in {"Var", "Multiset"} THEN {p.n}
    ELSE LET binders == {j \in 1 .. Len(p.pats) : p.pats[j].t = "Multiset"}
             last == IF binders = {} THEN Len(p.pats)
                     ELSE CHOOSE j \in binders : \A k \in binders : j <= k
         IN  UNION {ExaminedNames(p.pats[j]) : j \in 1 .. last}

\* C1: on the arena of test_match, from an empty substitution, add_zero
\* against the Add node (h4) and mul_zero against the Mul node (h5) run to
\* completion and return true whatever order the multiset keys come in; the
\* Mul match binds xs to {h0,h1,h3}, the Add match binds x to one handle of
\* {h0,h1,h3} and xs to the two others, each with multiplicity 1.
C1_TestMatch ==
    (EmptyStart /\ ((expr = 4 /\ pattern = AddZero) \/ (expr = 5 /\ pattern = MulZero)))
      => IF ~Done THEN ENABLED Next
         ELSE /\ ret = "true"
              /\ pattern = MulZero =>
                   Final = [k \in {"xs"} |-> MultisetV([h \in {0, 1, 3} |-> 1])]
              /\ pattern = AddZero =>
                   \E h \in {0, 1, 3} :
                      Final = [k \in {"x", "xs"} |->
                                 IF k = "x" THEN Atom(h)
                                 ELSE MultisetV([g \in {0, 1, 3} \ {h} |-> 1])]

C1_Witness ==
    /\ Done /\ EmptyStart /\ expr = 4 /\ pattern = AddZero
    /\ ret = "true"
    /\ Final["x"] = Atom(3)

\* C2: in the AC branch, committing a sub-pattern to candidate h takes one
\* occurrence of h out of the working multiset: a multiplicity n > 1 becomes
\* n - 1 and the key goes only at multiplicity zero.
C2_OneOccurrenceRemoved ==
    [][(Running("ac_trial") /\ ret = "true")
         => stack'[Len(stack)].remaining = RemoveOne(top.remaining, top.cand)]_vars

\* C3: a call started with an empty substitution that returns false leaves
\* the substitution empty.
C3_FailureLeavesEmpty ==
    (Done /\ EmptyStart /\ ret = "false") => Final = EmptyMap

\* C4 as stated: after a call started with an empty substitution that
\* returns true, the names bound are exactly the names of the pattern, also
\* when sub-patterns follow a Multiset binder.
C4_AllNamesBound ==
    (Done /\ EmptyStart /\ ret = "true") => DOMAIN Final = AllNames(pattern)

\* C4 amended: after a call started with an empty substitution that returns
\* true, the names bound are exactly the names of the pattern that do not
\* follow a Multiset binder in their sub-pattern list; no other name is bound.
C4_ExaminedNamesBound ==
    (Done /\ EmptyStart /\ ret = "true")
      => /\ DOMAIN Final = ExaminedNames(pattern)
         /\ DOMAIN Final \subseteq AllNames(pattern)

C4_Witness ==
    /\ Done /\ EmptyStart /\ ret = "true"
    /\ pattern = POp("Add", <<PVar("x"), PMultiset("xs"), PVar("xs")>>)
    /\ DOMAIN Final = {"x", "xs"}
    /\ Final["xs"].t = "Multiset"

\* C5: ac_match(e, Var(x), arena, s) binds x to Atom(e) and returns true when
\* x is unbound; returns true when s binds x to Atom(e); returns false when s
\* binds x to another handle (even of an equal node) or to a multiset; and
\* leaves s as it is in the bound cases.
C5_VarCase ==
    [][(Running("start") /\ top.pat.t = "Var")
         => LET x == top.pat.n
                e == top.expr
                s == cells[top.sref]
                t == cells'[top.sref]
            IN  /\ Len(stack') = Len(stack) - 1
                /\ IF x \notin DOMAIN s
                   THEN /\ ret' = "true"
                        /\ t = [k \in DOMAIN s \cup {x} |->
                                  IF k = x THEN Atom(e) ELSE s[k]]
                   ELSE /\ t = s
                        /\ ret' = IF s[x].t = "Atom" /\ s[x].id = e
                                  THEN "true" ELSE "false"]_vars

C5_Witness ==
    /\ Done /\ pattern = PVar("x") /\ expr = 6
    /\ subst_in = [k \in {"x"} |-> Atom(2)]
    /\ Node(2) = Node(6)
    /\ ret = "false"
    /\ Final = subst_in

\* C6: a call whose pattern is Multiset(name) aborts, for every expression
\* node and every substitution: it returns neither true nor false.
C6_TopLevelMultisetAborts ==
    pattern.t = "Multiset"
      => IF Done THEN ret = "panic" ELSE ENABLED MatchMultiset

C6_Witness ==
    /\ Done /\ pattern.t = "Multiset" /\ ret = "panic"
    /\ Node(expr).t = "OpAC"
    /\ subst_in # EmptyMap

\* C7: a Multiset(name) binder reached with name already bound compares the
\* binding with Multiset(remaining) and returns the outcome as a boolean; it
\* neither overwrites the binding nor aborts.
C7_BoundBinderCompares ==
    [][(/\ Running("ac_loop")
        /\ top.i <= Len(top.pat.pats)
        /\ top.pat.pats[top.i].t = "Multiset"
        /\ top.pat.pats[top.i].n \in DOMAIN cells[top.sref])
         => LET s == cells[top.sref]
            IN  /\ ret' = Bool(s[top.pat.pats[top.i].n] = MultisetV(top.remaining))
                /\ Len(stack') = Len(stack) - 1
                /\ cells'[top.sref] = s]_vars

\* C8: each candidate trial runs on its own copy of the substitution.  The
\* copy is the real substitution as it is when the trial starts; the real one
\* does not change while the trial runs; a trial that returns false leaves it
\* as it was, and one that returns true replaces it by the copy.  So with
\* Op(Add,[Op(Sub,[Var x, Const 1])]) against (y - x) + (x - 1), x ends bound
\* to h0 whether or not y - x was tried (binding x to h1) and rejected first.
C8_TrialStep ==
    /\ Running("ac_iter") /\ Len(stack') > Len(stack)
         => /\ Len(cells') = Len(cells) + 1
            /\ cells'[Len(cells')] = cells[top.sref]
            /\ stack'[Len(stack')].sref = Len(cells')
            /\ stack'[Len(stack')].sref # top.sref
    /\ \A k \in 1 .. Len(stack) :
         (stack[k].pc = "ac_trial" /\ k <= Len(stack'))
           => LET r == stack[k].sref
              IN  IF k < Len(stack) THEN cells'[r] = cells[r]
                  ELSE IF ret = "true" THEN cells'[r] = cells[Len(cells)]
                  ELSE cells'[r] = cells[r]

C8_TrialIsolation ==
    /\ [][C8_TrialStep]_vars
    /\ [](( /\ Done /\ EmptyStart /\ expr = 11
            /\ pattern = POp("Add", <<POp("Sub", <<PVar("x"), PConst(1)>>)>>))
           => (ret = "true" /\ Final = [k \in {"x"} |-> Atom(0)]))

C8_Witness ==
    /\ Running("ac_trial")
    /\ ret = "false"
    /\ EmptyStart /\ expr = 11
    /\ pattern = POp("Add", <<POp("Sub", <<PVar("x"), PConst(1)>>)>>)
    /\ cells[Len(cells)] = [k \in {"x"} |-> Atom(1)]
    /\ cells[top.sref] = EmptyMap

\* Whether the leaf patterns ps can be assigned to distinct occurrences of
\* the elements of multiset m, the literals to equal Const nodes and a
\* variable name to one handle throughout.
Assignable(ps, m) ==
    \E a \in [1 .. Len(ps) -> DOMAIN m] :
       /\ \A h \in DOMAIN m : Cardinality({j \in 1 .. Len(ps) : a[j] = h}) <= m[h]
       /\ \A j \in 1 .. Len(ps) :
            /\ ps[j].t \in {"Const", "Var"}
            /\ ps[j].t = "Const" => Node(a[j]) = EConst(ps[j].v)
            /\ \A k \in 1 .. Len(ps) :
                 (ps[k].t = "Var" /\ ps[j].t = "Var" /\ ps[k].n = ps[j].n) => a[k] = a[j]

\* C9: the AC search is greedy.  A running AC call only moves forward in its
\* pattern list, each time taking the committed candidate (at least one
\* occurrence of it) out of the working multiset for good, and it returns false as soon as a sub-pattern has no
\* candidate left.  So Op(Add,[Var x, Const 0]) against 0 + y returns false
\* when x took the Const 0 handle (h2 came first) and true when x took h1,
\* although the first case has an assignment too.
C9_GreedyStep ==
    /\ \A k \in 1 .. Len(stack) :
         (k <= Len(stack') /\ stack[k].pc \in {"ac_loop", "ac_iter", "ac_trial"})
           => LET f == stack[k]
                  g == stack'[k]
              IN  /\ g.i \in {f.i, f.i + 1}
                  /\ g.i = f.i => g.remaining = f.remaining
                  /\ g.i = f.i + 1 =>
                       /\ f.cand \in DOMAIN f.remaining
                       /\ DOMAIN g.remaining \subseteq DOMAIN f.remaining
                       /\ DOMAIN f.remaining \ {f.cand} \subseteq DOMAIN g.remaining
                       /\ \A h \in DOMAIN g.remaining :
                            IF h = f.cand THEN g.remaining[h] < f.remaining[h]
                            ELSE g.remaining[h] = f.remaining[h]
    /\ (Running("ac_iter") /\ top.untried = {})
         => (ret' = "false" /\ Len(stack') = Len(stack) - 1)

C9_Example ==
    /\ EmptyStart /\ expr = 10
    /\ pattern = POp("Add", <<PVar("x"), PConst(0)>>)

C9_Greedy ==
    /\ [][C9_GreedyStep]_vars
    /\ []((Done /\ C9_Example)
           => /\ Assignable(pattern.pats, Node(expr).ms)
              /\ \/ ret = "false" /\ Final = [k \in {"x"} |-> Atom(2)]
                 \/ ret = "true"  /\ Final = [k \in {"x"} |-> Atom(1)])

C9_Witness ==
    /\ Done /\ C9_Example
    /\ ret = "false"
    /\ Assignable(pattern.pats, Node(expr).ms)

\* C10: the substitution only grows: no step of ac_match removes a binding
\* or changes the value a name is bound to, in the caller's substitution or
\* in a trial copy, so every binding present when a call starts is there,
\* unchanged, when it returns.
C10_Grows ==
    [][\A c \in 1 .. Len(cells) :
          c <= Len(cells') =>
             \A nm \in DOMAIN cells[c] :
                nm \in DOMAIN cells'[c] /\ cells'[c][nm] = cells[c][nm]]_vars

C10_Witness ==
    /\ Done /\ ret = "true"
    /\ subst_in = [k \in {"x"} |-> Atom(2)]
    /\ DOMAIN Final = {"x", "xs"}
    /\ Final["x"] = Atom(2)

====
